---- MODULE Spec2Model ----
(***************************************************************************)
(* A model of src/src/Graph.py (Subdue): the attributed, time-stamped      *)
(* multigraph container (from_json, TemporalOrder, Compress) and the graph *)
(* matcher (match_g / ExtendMapping, match_g_Orig / ExtendMapping_Orig,    *)
(* match_e, match_v).                                                      *)
(*                                                                         *)
(* Representation.  Python objects are compared by identity, so edges live *)
(* in a heap: g.eobj maps an object's number (its "oid", the count of Edge  *)
(* objects made so far, g.nobj, when it was made) to the Edge object.  The *)
(* dict self.es is the pair (g.ekeys, g.es): the keys in insertion order   *)
(* and the object each key maps to.  Vertex objects are kept in g.v keyed  *)
(* by their id; the dict self.vs is g.vkeys (its keys in insertion order). *)
(* An object that Compress leaves with no reference to it (an instance's   *)
(* edge, an instance's vertex) is dropped from the heap, as Python frees   *)
(* it.  Ids are token sequences:                                           *)
(* <<"1">> is the id "1" and <<"PATTERN", it, i>> is f'PATTERN-{it}-{i}'.  *)
(* Attribute dicts are sets of <<key, value>> pairs with unique keys.      *)
(***************************************************************************)
EXTENDS Integers, Sequences, FiniteSets, TLC

VARIABLES graph, err, iter, last, g1, g2, inv, gMaxMappings

vars == <<graph, err, iter, last, g1, g2, inv, gMaxMappings>>

\* ------------------------------------------------------------ helpers

Range(s) == {s[i] : i \in DOMAIN s}

Put(f, k, x) == [y \in DOMAIN f \cup {k} |-> IF y = k THEN x ELSE f[y]]

\* d[k] = x on a dict's key order: a new key goes last, an old key keeps its place
DictSet(keys, k) == IF k \in Range(keys) THEN keys ELSE Append(keys, k)

\* del d[k]
DictDel(keys, k) == SelectSeq(keys, LAMBDA x : x # k)

\* list.index(x): position (from 1) of the first occurrence, 0 when absent
RECURSIVE IndexFrom(_, _, _)
IndexFrom(s, x, i) ==
    IF i > Len(s) THEN 0 ELSE IF s[i] = x THEN i ELSE IndexFrom(s, x, i + 1)

Index(s, x) == IndexFrom(s, x, 1)

\* list.remove(x) on a list that holds x: the first occurrence goes
ListRemove(s, x) ==
    LET k == Index(s, x)
    IN  [i \in 1..(Len(s) - 1) |-> IF i < k THEN s[i] ELSE s[i + 1]]

\* ------------------------------------------------------------ entities

Vertex(id) ==
    [id |-> id, timestamp |-> 0, temporal |-> 0, attrs |-> {}, es |-> <<>>]

Edge(id, src, tgt, directed) ==
    [id |-> id, src |-> src, tgt |-> tgt, directed |-> directed,
     timestamp |-> 0, temporal |-> 0, attrs |-> {}]

add_attr(attrs, key, value) ==
    {p \in attrs : p[1] # key} \cup {<<key, value>>}

add_edge(es, e) == Append(es, e)

EmptyGraph ==
    [vkeys |-> <<>>, v |-> <<>>, ekeys |-> <<>>, es |-> <<>>, eobj |-> <<>>,
     nobj |-> 0]

size(g) == <<Len(g.vkeys), Len(g.ekeys)>>

\* self.vs.values() and self.es.values(), in dict order
VsValues(g) == [i \in DOMAIN g.vkeys |-> g.v[g.vkeys[i]]]

EsValues(g) == [i \in DOMAIN g.ekeys |-> g.es[g.ekeys[i]]]

\* ------------------------------------------------------------ from_json

\* the attrs loop: add_attr for every item of the JSON dict
RECURSIVE AddAttrs(_, _)
AddAttrs(attrs, json_attrs) ==
    IF json_attrs = {} THEN attrs
    ELSE LET p == CHOOSE q \in json_attrs : TRUE
         IN  AddAttrs(add_attr(attrs, p[1], p[2]), json_attrs \ {p})

\* one pass of the loop body; r is one JSON object
FromJsonVertex(g, r) ==
    IF r.id \in Range(g.vkeys) THEN g
    ELSE LET v == [Vertex(r.id) EXCEPT !.timestamp = r.timestamp,
                                       !.attrs = AddAttrs({}, r.attrs)]
         IN  [g EXCEPT !.vkeys = Append(@, r.id), !.v = Put(@, r.id, v)]

FromJsonEdge(g, r) ==
    LET oid == g.nobj + 1
        e == [Edge(r.id, r.source, r.target, r.directed = "true")
                 EXCEPT !.timestamp = r.timestamp,
                        !.attrs = AddAttrs({}, r.attrs)]
        ga == [g EXCEPT !.eobj = Put(@, oid, e),
                        !.nobj = oid,
                        !.ekeys = DictSet(@, r.id),
                        !.es = Put(@, r.id, oid)]
        gb == [ga EXCEPT !.v[r.source].es = add_edge(@, oid)]
    IN  [gb EXCEPT !.v[r.target].es = add_edge(@, oid)]

\* the loop; a lookup of an unknown vertex id raises KeyError and ends the load
RECURSIVE FromJsonLoop(_, _, _)
FromJsonLoop(g, g_json, k) ==
    IF k > Len(g_json) THEN [g |-> g, err |-> "none"]
    ELSE LET r == g_json[k]
         IN  IF r.kind = "vertex"
             THEN FromJsonLoop(FromJsonVertex(g, r), g_json, k + 1)
             ELSE IF r.source \notin Range(g.vkeys) \/ r.target \notin Range(g.vkeys)
                  THEN [g |-> g, err |-> "KeyError"]
                  ELSE FromJsonLoop(FromJsonEdge(g, r), g_json, k + 1)

from_json(g_json) == FromJsonLoop(EmptyGraph, g_json, 1)

\* ------------------------------------------------------------ TemporalOrder

\* the two collecting loops: a timestamp is appended when not yet in the list
RECURSIVE Collect(_, _, _)
Collect(timestamps, ts, k) ==
    IF k > Len(ts) THEN timestamps
    ELSE Collect(IF ts[k] \in Range(timestamps) THEN timestamps
                 ELSE Append(timestamps, ts[k]), ts, k + 1)

\* timestamps.sort()
SortUnsorted(timestamps) == timestamps

Sort(timestamps) == SortSeq(timestamps, LAMBDA a, b : a < b)

\* the sorted list of the distinct timestamps of the graph
Timestamps(g) ==
    LET vts == [i \in DOMAIN g.vkeys |-> g.v[g.vkeys[i]].timestamp]
        ets == [i \in DOMAIN g.ekeys |-> g.eobj[g.es[g.ekeys[i]]].timestamp]
    IN  Sort(Collect(Collect(<<>>, vts, 1), ets, 1))

TemporalOrder(g) ==
    LET timestamps == Timestamps(g)
        live == Range(EsValues(g))
    IN  [g EXCEPT
          !.v = [id \in DOMAIN g.v |->
                   IF id \in Range(g.vkeys)
                   THEN [g.v[id] EXCEPT
                           !.temporal = Index(timestamps, g.v[id].timestamp) - 1]
                   ELSE g.v[id]],
          !.eobj = [o \in DOMAIN g.eobj |->
                   IF o \in live
                   THEN [g.eobj[o] EXCEPT
                           !.temporal = Index(timestamps, g.eobj[o].timestamp) - 1]
                   ELSE g.eobj[o]]]

\* ------------------------------------------------------------ Compress

Max(S) == CHOOSE x \in S : \A y \in S : y <= x

\* Instance.max_timestamp(): the largest timestamp of the instance's vertices and edges
max_timestamp(g, inst) ==
    Max({g.v[x].timestamp : x \in Range(inst.vs)}
        \cup {g.eobj[o].timestamp : o \in Range(inst.es)})

\* for inst_e in inst.es: remove the edge from both endpoints' lists and from self.es;
\* list.remove of an absent item raises ValueError, del of an absent key KeyError
RECURSIVE RemoveInstEdges(_, _, _)
RemoveInstEdges(g, es, k) ==
    IF k > Len(es) THEN [g |-> g, err |-> "none"]
    ELSE LET o == es[k]
             e == g.eobj[o]
         IN  IF o \notin Range(g.v[e.src].es) THEN [g |-> g, err |-> "ValueError"]
             ELSE LET ga == [g EXCEPT !.v[e.src].es = ListRemove(@, o)]
                  IN  IF o \notin Range(ga.v[e.tgt].es)
                      THEN [g |-> ga, err |-> "ValueError"]
                      ELSE LET gb == [ga EXCEPT !.v[e.tgt].es = ListRemove(@, o)]
                           IN  IF e.id \notin Range(gb.ekeys)
                               THEN [g |-> gb, err |-> "KeyError"]
                               ELSE RemoveInstEdges(
                                      [gb EXCEPT
                                         !.ekeys = DictDel(@, e.id),
                                         !.es = [x \in DOMAIN gb.es \ {e.id} |-> gb.es[x]],
                                         !.eobj = [x \in DOMAIN gb.eobj \ {o} |-> gb.eobj[x]]],
                                      es, k + 1)

\* for e in v.es: an end that is v becomes n_v, and e joins n_v.es once
RECURSIVE RedirectEdges(_, _, _, _, _)
RedirectEdges(g, vid, n_vid, es, k) ==
    IF k > Len(es) THEN g
    ELSE LET o == es[k]
             ga == [g EXCEPT !.eobj[o].src = IF @ = vid THEN n_vid ELSE @]
             gb == [ga EXCEPT !.eobj[o].tgt = IF @ = vid THEN n_vid ELSE @]
             gc == IF o \in Range(gb.v[n_vid].es) THEN gb
                   ELSE [gb EXCEPT !.v[n_vid].es = Append(@, o)]
         IN  RedirectEdges(gc, vid, n_vid, es, k + 1)

\* for v in inst.vs: redirect its remaining edges, then del self.vs[v.id]
RECURSIVE RemoveInstVertices(_, _, _, _)
RemoveInstVertices(g, vs, n_vid, k) ==
    IF k > Len(vs) THEN [g |-> g, err |-> "none"]
    ELSE LET vid == vs[k]
             ga == RedirectEdges(g, vid, n_vid, g.v[vid].es, 1)
         IN  IF vid \notin Range(ga.vkeys) THEN [g |-> ga, err |-> "KeyError"]
             ELSE RemoveInstVertices(
                    [ga EXCEPT !.vkeys = DictDel(@, vid),
                               !.v = [x \in DOMAIN ga.v \ {vid} |-> ga.v[x]]],
                    vs, n_vid, k + 1)

\* the body of the loop over pattern.insts, for instance number i (from 0)
CompressInst(g, it, i, inst) ==
    LET n_vl == <<"PATTERN", it>>
        n_vid == <<"PATTERN", it, i>>
        n_v == [Vertex(n_vid) EXCEPT !.timestamp = max_timestamp(g, inst),
                                     !.attrs = add_attr({}, "label", n_vl)]
        ga == [g EXCEPT !.vkeys = DictSet(@, n_vid), !.v = Put(@, n_vid, n_v)]
        r == RemoveInstEdges(ga, inst.es, 1)
    IN  IF r.err # "none" THEN r ELSE RemoveInstVertices(r.g, inst.vs, n_vid, 1)

RECURSIVE CompressLoop(_, _, _, _)
CompressLoop(g, it, insts, k) ==
    IF k > Len(insts) THEN [g |-> g, err |-> "none"]
    ELSE LET r == CompressInst(g, it, k - 1, insts[k])
         IN  IF r.err # "none" THEN r ELSE CompressLoop(r.g, it, insts, k + 1)

Compress(g, it, insts) == CompressLoop(g, it, insts, 1)

\* ------------------------------------------------------------ inputs

MaxVertexRecords == 3
MaxEdgeRecords == 2
MaxInsts == 1
MaxCompress == 1

SeqsUpTo(S, n) == UNION {[1..k -> S] : k \in 0..n}

VertexRecord(id, timestamp, attrs) ==
    [kind |-> "vertex", id |-> id, source |-> id, target |-> id,
     directed |-> "false", timestamp |-> timestamp, attrs |-> attrs]

EdgeRecord(id, source, target, directed, timestamp, attrs) ==
    [kind |-> "edge", id |-> id, source |-> source, target |-> target,
     directed |-> directed, timestamp |-> timestamp, attrs |-> attrs]

VIdSeq == << <<"1">>, <<"2">>, <<"3">> >>
VIds == Range(VIdSeq)
EIdSeq == << <<"e", 1>>, <<"e", 2>> >>
EIds == Range(EIdSeq)
Stamps == {0, 3, 7}

\* the vertex records come first, the edge records after them; vertex ids may
\* repeat, and a new id is the next of VIdSeq (the code never looks into an id)
VertexInputs ==
    {recs \in SeqsUpTo({VertexRecord(id, 0, {}) : id \in VIds}, MaxVertexRecords) :
        \A i \in DOMAIN recs :
            Index(VIdSeq, recs[i].id) <= 1 + Cardinality({recs[j].id : j \in 1..(i - 1)})}

\* edge ids may repeat, and an edge may name a vertex that no record introduced;
\* the source of an edge is not after its target in VIdSeq
EdgeInputs ==
    SeqsUpTo({EdgeRecord(id, VIdSeq[s], VIdSeq[t], "false", 0, {}) :
                id \in EIds, s \in DOMAIN VIdSeq, t \in DOMAIN VIdSeq} \cap
             {r \in [kind : {"edge"}, id : EIds, source : VIds, target : VIds,
                     directed : {"false"}, timestamp : {0}, attrs : {{}}] :
                Index(VIdSeq, r.source) <= Index(VIdSeq, r.target)},
             MaxEdgeRecords)

\* record sequences that vary the timestamps
StampedVertexInputs ==
    SeqsUpTo({VertexRecord(id, ts, {}) :
                id \in {<<"1">>, <<"2">>}, ts \in Stamps}, 2)

StampedEdgeInputs ==
    SeqsUpTo({EdgeRecord(EIdSeq[1], s, t, "false", ts, {}) :
                s \in {<<"1">>, <<"2">>}, t \in {<<"1">>, <<"2">>},
                ts \in Stamps}, 1)

\* the vertices an instance's edges reach from x
RECURSIVE Reach(_, _, _)
Reach(g, eset, seen) ==
    LET more == seen \cup {g.eobj[o].src : o \in {o \in eset : g.eobj[o].tgt \in seen}}
                     \cup {g.eobj[o].tgt : o \in {o \in eset : g.eobj[o].src \in seen}}
    IN  IF more = seen THEN seen ELSE Reach(g, eset, more)

\* the instances of a graph: a non-empty set of its vertices and a set of its
\* edges between them that connects them, each listed in the graph's order
Instances(g) ==
    {[vs |-> SelectSeq(g.vkeys, LAMBDA x : x \in p[1]),
      es |-> SelectSeq(EsValues(g), LAMBDA o : o \in p[2])] :
        p \in
          {p \in (SUBSET Range(g.vkeys)) \X (SUBSET Range(EsValues(g))) :
             /\ p[1] # {}
             /\ \A o \in p[2] : g.eobj[o].src \in p[1] /\ g.eobj[o].tgt \in p[1]
             /\ Reach(g, p[2], {CHOOSE x \in p[1] : TRUE}) = p[1]}}

\* pattern.insts: instances that share no vertex (and so no edge)
Patterns(g) ==
    {insts \in (LET all == Instances(g)
                IN  UNION {[1..k -> all] : k \in 1..MaxInsts}) :
        \A i, j \in DOMAIN insts :
            i # j => Range(insts[i].vs) \cap Range(insts[j].vs) = {}}

\* ------------------------------------------------------------ the container

InitGraph ==
    /\ graph = EmptyGraph
    /\ err = "none"
    /\ iter = 0
    /\ last = "Graph"
    /\ g1 = EmptyGraph
    /\ g2 = EmptyGraph
    /\ inv = <<>>
    /\ gMaxMappings = 1

FromJson ==
    /\ err = "none"
    /\ last = "Graph"
    /\ \/ \E vrecs \in VertexInputs, erecs \in EdgeInputs :
              LET r == from_json(vrecs \o erecs)
              IN  graph' = r.g /\ err' = r.err
       \/ \E vrecs \in StampedVertexInputs, erecs \in StampedEdgeInputs :
              LET r == from_json(vrecs \o erecs)
              IN  graph' = r.g /\ err' = r.err
    /\ last' = "from_json"
    /\ UNCHANGED <<iter, g1, g2, inv, gMaxMappings>>

DoTemporalOrder ==
    /\ err = "none"
    /\ graph' = TemporalOrder(graph)
    /\ last' = "TemporalOrder"
    /\ UNCHANGED <<err, iter, g1, g2, inv, gMaxMappings>>

\* Compress(it, pattern): the caller numbers its iterations, so it is fresh
DoCompress ==
    /\ err = "none"
    /\ iter < MaxCompress
    /\ \E insts \in Patterns(graph) :
         LET r == Compress(graph, iter, insts)
         IN  /\ graph' = r.g
             /\ err' = r.err
    /\ last' = "Compress"
    /\ iter' = iter + 1
    /\ UNCHANGED <<g1, g2, inv, gMaxMappings>>

NextGraph == FromJson \/ DoTemporalOrder \/ DoCompress

Spec == InitGraph /\ [][NextGraph]_vars

\* ------------------------------------------------------------ the matcher

match_v_Le(ga, gb, v_id1, v_id2) ==
    LET v1 == ga.v[v_id1]
        v2 == gb.v[v_id2]
    IN  v1.attrs = v2.attrs /\ Len(v1.es) <= Len(v2.es) /\ v1.temporal = v2.temporal

match_v(ga, gb, v_id1, v_id2) ==
    LET v1 == ga.v[v_id1]
        v2 == gb.v[v_id2]
    IN  v1.attrs = v2.attrs /\ Len(v1.es) = Len(v2.es) /\ v1.temporal = v2.temporal

match_e(ga, gb, e_id1, e_id2, mapping) ==
    LET e1 == ga.eobj[ga.es[e_id1]]
        e2 == gb.eobj[gb.es[e_id2]]
    IN  IF e1.attrs # e2.attrs \/ e1.directed # e2.directed \/ e1.temporal # e2.temporal
        THEN FALSE
        ELSE IF match_v(ga, gb, e1.src, e2.src) /\ match_v(ga, gb, e1.tgt, e2.tgt)
        THEN TRUE
        ELSE IF ~e1.directed /\ match_v(ga, gb, e1.src, e2.tgt)
                             /\ match_v(ga, gb, e1.tgt, e2.src)
        THEN TRUE
        ELSE FALSE

\* len(g1.es) ** 2, and the value the module starts gMaxMappings with
StaleBudget(ga) == 1

Budget(ga) == Len(ga.ekeys) * Len(ga.ekeys)

Procs == 1..4

G(sel) == IF sel = "g1" THEN g1 ELSE g2

\* An invocation is between two entries of ExtendMapping (or ExtendMapping_Orig):
\* stack holds the frames waiting in their recursive call, each with its e_id1 and
\* the position i in g2.es of the e_id2 it mapped; n_mappings is the argument of the
\* frame about to be entered, and at the end the count the outermost frame returns.
Idle(fn, a, b) ==
    [fn |-> fn, a |-> a, b |-> b, st |-> "idle", stack |-> <<>>, mapping |-> <<>>,
     n_mappings |-> 0, res |-> "none"]

Bool(b) == IF b THEN "True" ELSE "False"

\* the part of match_g and match_g_Orig before the search: the result, or "search"
Precheck(ga, gb) ==
    IF Len(ga.vkeys) # Len(gb.vkeys) \/ Len(ga.ekeys) # Len(gb.ekeys) THEN "False"
    ELSE IF Len(ga.ekeys) = 0
    THEN IF Len(ga.vkeys) = 0 THEN "IndexError"
         ELSE Bool(match_v(ga, gb, ga.vkeys[1], gb.vkeys[1]))
    ELSE "search"

\* next(e_id for e_id in g1.es if e_id not in mapping)
NextUnmapped(ga, mapping) ==
    ga.ekeys[CHOOSE k \in DOMAIN ga.ekeys :
                /\ ga.ekeys[k] \notin DOMAIN mapping
                /\ \A j \in 1..(k - 1) : ga.ekeys[j] \in DOMAIN mapping]

\* the positions from i on of the edges of g2 the loop does not skip
Candidates(ga, gb, mapping, e_id1, i) ==
    {j \in i..Len(gb.ekeys) :
        /\ gb.ekeys[j] \notin Range(mapping)
        /\ match_e(ga, gb, e_id1, gb.ekeys[j], mapping)}

Min(S) == CHOOSE x \in S : \A y \in S : x <= y

\* The for loop of the frame that maps e_id1, from position i of g2.es: it extends
\* the mapping and calls (the invocation then stands at the next entry), or it ends
\* and returns False with n_mappings, to the frame below, whose loop goes on.
RECURSIVE Loop(_, _, _, _, _)
Loop(c, ga, gb, e_id1, i) ==
    LET cand == Candidates(ga, gb, c.mapping, e_id1, i)
    IN  IF cand # {}
        THEN [c EXCEPT !.mapping = Put(@, e_id1, gb.ekeys[Min(cand)]),
                       !.stack = Append(@, [e_id1 |-> e_id1, i |-> Min(cand)]),
                       !.n_mappings = @ + 1]
        ELSE IF c.stack = <<>>
        THEN [c EXCEPT !.st = "done", !.res = "False"]
        ELSE LET top == c.stack[Len(c.stack)]
             IN  Loop([c EXCEPT
                         !.stack = SubSeq(@, 1, Len(@) - 1),
                         !.mapping = [x \in DOMAIN @ \ {top.e_id1} |-> @[x]]],
                      ga, gb, top.e_id1, top.i + 1)

\* a frame returns True: every frame below returns True with the same count
Found(c) == [c EXCEPT !.st = "done", !.res = "True", !.stack = <<>>]

\* a frame returns False before its loop: the loop of the frame below goes on
Fail(c, ga, gb) ==
    IF c.stack = <<>> THEN [c EXCEPT !.st = "done", !.res = "False"]
    ELSE LET top == c.stack[Len(c.stack)]
         IN  Loop([c EXCEPT
                     !.stack = SubSeq(@, 1, Len(@) - 1),
                     !.mapping = [x \in DOMAIN @ \ {top.e_id1} |-> @[x]]],
                  ga, gb, top.e_id1, top.i + 1)

\* one entry of ExtendMapping, with the budget it reads
Enter(c, ga, gb, budget) ==
    IF Cardinality(DOMAIN c.mapping) = Len(ga.ekeys) THEN Found(c)
    ELSE IF c.n_mappings > budget THEN Fail(c, ga, gb)
    ELSE Loop(c, ga, gb, NextUnmapped(ga, c.mapping), 1)

\* one entry of ExtendMapping_Orig
Enter_Orig(c, ga, gb) ==
    IF Cardinality(DOMAIN c.mapping) = Len(ga.ekeys) THEN Found(c)
    ELSE Loop(c, ga, gb, NextUnmapped(ga, c.mapping), 1)

match_g(p) ==
    /\ inv[p].st = "idle"
    /\ inv[p].fn = "match_g"
    /\ LET ga == G(inv[p].a)
           gb == G(inv[p].b)
           r == Precheck(ga, gb)
       IN  IF r = "search"
           THEN /\ gMaxMappings' = Budget(ga)
                /\ inv' = [inv EXCEPT ![p].st = "run"]
           ELSE /\ inv' = [inv EXCEPT ![p].st = "done", ![p].res = r]
                /\ UNCHANGED gMaxMappings
    /\ UNCHANGED <<graph, err, iter, last, g1, g2>>

ExtendMapping(p) ==
    /\ inv[p].st = "run"
    /\ inv[p].fn = "match_g"
    /\ inv' = [inv EXCEPT ![p] = Enter(@, G(@.a), G(@.b), gMaxMappings)]
    /\ UNCHANGED <<graph, err, iter, last, g1, g2, gMaxMappings>>

match_g_Orig(p) ==
    /\ inv[p].st = "idle"
    /\ inv[p].fn = "match_g_Orig"
    /\ LET r == Precheck(G(inv[p].a), G(inv[p].b))
       IN  IF r = "search"
           THEN inv' = [inv EXCEPT ![p].st = "run"]
           ELSE inv' = [inv EXCEPT ![p].st = "done", ![p].res = r]
    /\ UNCHANGED <<graph, err, iter, last, g1, g2, gMaxMappings>>

ExtendMapping_Orig(p) ==
    /\ inv[p].st = "run"
    /\ inv[p].fn = "match_g_Orig"
    /\ inv' = [inv EXCEPT ![p] = Enter_Orig(@, G(@.a), G(@.b))]
    /\ UNCHANGED <<graph, err, iter, last, g1, g2, gMaxMappings>>

\* ------------------------------------------------------------ the graphs matched

MaxLoops == 5

\* the graph a record sequence loads, ordered
Loaded(inputs) ==
    {TemporalOrder(from_json(g_json).g) :
        g_json \in {x \in inputs : from_json(x).err = "none"}}

Labels == {{<<"label", <<"a">>>>}, {<<"label", <<"b">>>>}}

\* n vertices and up to as many edges as EIdSeq has ids, of every direction and
\* between every two of the vertices
ShapeInputsOf(n) ==
    {[k \in 1..n |-> VertexRecord(VIdSeq[k], 0, {})] \o erecs :
        erecs \in {x \in SeqsUpTo({EdgeRecord(id, s, t, d, 0, {}) :
                                      id \in EIds, s \in Range(SubSeq(VIdSeq, 1, n)),
                                      t \in Range(SubSeq(VIdSeq, 1, n)),
                                      d \in {"true", "false"}}, Len(EIdSeq)) :
                     \A k \in DOMAIN x : x[k].id = EIdSeq[k]}}

ShapeInputs == UNION {ShapeInputsOf(n) : n \in 0..2}

\* n vertices, labelled and stamped, and no edge or one from the first to the
\* second, labelled and stamped
LabelInputsOf(n) ==
    {vrecs \o erecs :
        vrecs \in {x \in [1..n -> {VertexRecord(id, ts, l) :
                                     id \in VIds, ts \in {0, 3}, l \in Labels}] :
                     \A k \in DOMAIN x : x[k].id = VIdSeq[k]},
        erecs \in {<<>>} \cup
                  {<<EdgeRecord(EIdSeq[1], VIdSeq[1], VIdSeq[2], "false", ts, l)>> :
                     ts \in {0, 3}, l \in Labels}}

LabelInputs == UNION {LabelInputsOf(n) : n \in 0..2}

\* one vertex and up to MaxLoops labelled loops at it
LoopInputs ==
    UNION {{<<VertexRecord(VIdSeq[1], 0, {})>> \o
              [k \in 1..n |-> EdgeRecord(<<"e", k>>, VIdSeq[1], VIdSeq[1], "false", 0, ls[k])] :
              ls \in [1..n -> Labels]} :
           n \in 0..MaxLoops}

Families == {Loaded(ShapeInputs), Loaded(LabelInputs), Loaded(LoopInputs)}

Done(p) == inv[p].st = "done"

Ready(p) == \A q \in 1..(p - 1) : Done(q)

\* match_g and match_g_Orig on (g1, g2) and on (g2, g1), one call after the other
InitMatch ==
    /\ graph = EmptyGraph
    /\ err = "none"
    /\ iter = 0
    /\ last = "Graph"
    /\ \E F \in Families : g1 \in F /\ g2 \in F
    /\ inv = [p \in Procs |->
                CASE p = 1 -> Idle("match_g", "g1", "g2")
                  [] p = 2 -> Idle("match_g_Orig", "g1", "g2")
                  [] p = 3 -> Idle("match_g", "g2", "g1")
                  [] p = 4 -> Idle("match_g_Orig", "g2", "g1")]
    /\ gMaxMappings = 1

SeqMatchG == \E p \in Procs : Ready(p) /\ match_g(p)

SeqExtendMapping == \E p \in Procs : Ready(p) /\ ExtendMapping(p)

SeqMatchGOrig == \E p \in Procs : Ready(p) /\ match_g_Orig(p)

SeqExtendMappingOrig == \E p \in Procs : Ready(p) /\ ExtendMapping_Orig(p)

NextMatch == SeqMatchG \/ SeqExtendMapping \/ SeqMatchGOrig \/ SeqExtendMappingOrig

SpecMatch == InitMatch /\ [][NextMatch]_vars

\* match_g(g1, g1) and match_g(g2, g2): each alone first (invocations 1 and 2), then
\* the two together (3 and 4), their entries of ExtendMapping in any order
InitConc ==
    /\ graph = EmptyGraph
    /\ err = "none"
    /\ iter = 0
    /\ last = "Graph"
    /\ g1 \in Loaded(LoopInputs)
    /\ g2 \in Loaded(LoopInputs)
    /\ inv = [p \in Procs |->
                IF p \in {1, 3} THEN Idle("match_g", "g1", "g1")
                ELSE Idle("match_g", "g2", "g2")]
    /\ gMaxMappings = 1

ReadyConc(p) == Ready(IF p = 4 THEN 3 ELSE p)

ConcMatchG == \E p \in Procs : ReadyConc(p) /\ match_g(p)

ConcExtendMapping == \E p \in Procs : ReadyConc(p) /\ ExtendMapping(p)

NextConc == ConcMatchG \/ ConcExtendMapping

SpecConc == InitConc /\ [][NextConc]_vars

\* ------------------------------------------------------------ claims: the container

\* the (timestamp, temporal) pairs of the graph's vertices and edges
Ranked(g) ==
    {[timestamp |-> g.v[id].timestamp, temporal |-> g.v[id].temporal] :
        id \in Range(g.vkeys)}
    \cup {[timestamp |-> g.eobj[o].timestamp, temporal |-> g.eobj[o].temporal] :
        o \in Range(EsValues(g))}

\* C4: after TemporalOrder a smaller timestamp has a smaller rank, equal timestamps
\* have equal ranks, the rank of an entity is the number of distinct timestamps of
\* the graph below its own, and on the graph with no vertex and no edge the call
\* changes nothing and raises nothing
TemporalMonotone ==
    last = "TemporalOrder" =>
        /\ err = "none"
        /\ \A x, y \in Ranked(graph) :
             /\ x.timestamp < y.timestamp => x.temporal < y.temporal
             /\ x.timestamp = y.timestamp => x.temporal = y.temporal
        /\ \A x \in Ranked(graph) :
             x.temporal =
               Cardinality({y.timestamp : y \in {z \in Ranked(graph) :
                                                   z.timestamp < x.timestamp}})
        /\ size(graph) = <<0, 0>> => graph = EmptyGraph

\* an ordered graph whose vertices and edges carry three timestamps, the ranks 0, 1
\* and 2 among them, an edge ranked between two vertices
TemporalWitness ==
    /\ last = "TemporalOrder"
    /\ \E a, b \in Range(graph.vkeys), o \in Range(EsValues(graph)) :
         /\ graph.v[a].timestamp = 7 /\ graph.v[a].temporal = 2
         /\ graph.v[b].timestamp = 0 /\ graph.v[b].temporal = 0
         /\ graph.eobj[o].timestamp = 3 /\ graph.eobj[o].temporal = 1

\* what C3 says of the graph h that Compress(it, <<inst>>) makes of the graph g
Conserved(g, h, it, inst) ==
    LET inside == Range(inst.vs)
        n_vid == <<"PATTERN", it, 0>>
    IN  /\ Len(h.vkeys) = Len(g.vkeys) - (Len(inst.vs) - 1)
        /\ Len(h.ekeys) = Len(g.ekeys) - Len(inst.es)
        /\ \A id \in Range(g.ekeys) :
             LET o == g.es[id]
                 e == g.eobj[o]
             IN  (e.src \in inside) # (e.tgt \in inside) =>
                   /\ id \in Range(h.ekeys)
                   /\ h.es[id] = o
                   /\ e.src \in inside =>
                        h.eobj[o].src = n_vid /\ h.eobj[o].tgt = e.tgt
                   /\ e.tgt \in inside =>
                        h.eobj[o].tgt = n_vid /\ h.eobj[o].src = e.src
        /\ n_vid \in Range(h.vkeys)
        /\ Cardinality(Range(h.v[n_vid].es)) = Len(h.v[n_vid].es)

\* C3: Compress with a pattern of one instance of k vertices and m edges takes k-1
\* vertices and m edges from the graph, keeps every edge with one end in the instance,
\* that end moved to the new vertex, and lists no edge twice at the new vertex
CompressConservation ==
    err = "none" =>
        \A inst \in Instances(graph) :
            Conserved(graph, Compress(graph, iter, <<inst>>).g, iter, inst)

\* the same, of the calls that return
CompressConservationOnReturn ==
    err = "none" =>
        \A inst \in Instances(graph) :
            LET r == Compress(graph, iter, <<inst>>)
            IN  r.err = "none" => Conserved(graph, r.g, iter, inst)

\* C9: every edge of the edge mapping ends at vertices of the vertex mapping, and the
\* incident list of every vertex holds exactly the edges of the mapping that end at it
GraphConsistent ==
    err = "none" =>
        /\ \A id \in Range(graph.ekeys) :
             /\ graph.eobj[graph.es[id]].src \in Range(graph.vkeys)
             /\ graph.eobj[graph.es[id]].tgt \in Range(graph.vkeys)
        /\ \A vid \in Range(graph.vkeys) :
             Range(graph.v[vid].es) =
               {o \in Range(EsValues(graph)) :
                  graph.eobj[o].src = vid \/ graph.eobj[o].tgt = vid}

\* ------------------------------------------------------------ claims: the matcher

\* C1: match_g(g, g) returns True, whatever the graph g
Reflexive ==
    (g1 = g2 /\ Done(1)) => inv[1].res = "True"

\* the same, of the graphs with a vertex
ReflexiveWithVertex ==
    (g1 = g2 /\ Done(1) /\ Len(g1.vkeys) > 0) => inv[1].res = "True"

\* the count match_g's search returns is above the budget: some entry of
\* ExtendMapping saw the budget exceeded
Exceeded(p) == inv[p].n_mappings > Budget(G(inv[p].a))

\* C2: on graphs of at most 6 edges match_g and match_g_Orig return the same
Agreement ==
    (Len(g1.ekeys) <= 6 /\ Len(g2.ekeys) <= 6 /\ Done(1) /\ Done(2)) =>
        inv[1].res = inv[2].res

\* both have returned, and match_g's search ran out of its budget
AgreementWitness ==
    /\ Done(1) /\ Done(2)
    /\ Exceeded(1)
    /\ inv[1].res = "False" /\ inv[2].res = "False"

\* C6: match_g(g1, g2) = match_g(g2, g1) when neither search exceeds its budget, and
\* match_g_Orig(g1, g2) = match_g_Orig(g2, g1) always
Symmetric ==
    /\ (Done(1) /\ Done(3) /\ ~Exceeded(1) /\ ~Exceeded(3)) => inv[1].res = inv[3].res
    /\ (Done(2) /\ Done(4)) => inv[2].res = inv[4].res

\* two different graphs of two edges that match in both directions, within the budget
SymmetricWitness ==
    /\ \A p \in Procs : Done(p) /\ inv[p].res = "True"
    /\ ~Exceeded(1) /\ ~Exceeded(3)
    /\ g1 # g2
    /\ Len(g1.ekeys) = 2

\* C7: on two graphs of no edge and the same number, above one, of vertices match_g
\* and match_g_Orig signal an error
ZeroEdgeError ==
    \A p \in {1, 2} :
        (/\ Done(p)
         /\ Len(g1.ekeys) = 0 /\ Len(g2.ekeys) = 0
         /\ Len(g1.vkeys) = Len(g2.vkeys) /\ Len(g1.vkeys) > 1)
        => inv[p].res \notin {"True", "False"}

Bijections(A, B) ==
    {f \in [A -> B] : \A x, y \in A : x # y => f[x] # f[y]}

\* a bijection of the vertices and one of the edges that keep the attributes, the
\* ranks, the directions and the ends
Isomorphic(ga, gb) ==
    /\ Len(ga.vkeys) = Len(gb.vkeys)
    /\ Len(ga.ekeys) = Len(gb.ekeys)
    /\ \E fv \in Bijections(Range(ga.vkeys), Range(gb.vkeys)) :
         /\ \A x \in Range(ga.vkeys) :
              /\ ga.v[x].attrs = gb.v[fv[x]].attrs
              /\ ga.v[x].temporal = gb.v[fv[x]].temporal
         /\ \E fe \in Bijections(Range(ga.ekeys), Range(gb.ekeys)) :
              \A x \in Range(ga.ekeys) :
                  LET e1 == ga.eobj[ga.es[x]]
                      e2 == gb.eobj[gb.es[fe[x]]]
                  IN  /\ e1.attrs = e2.attrs
                      /\ e1.directed = e2.directed
                      /\ e1.temporal = e2.temporal
                      /\ IF e1.directed
                         THEN fv[e1.src] = e2.src /\ fv[e1.tgt] = e2.tgt
                         ELSE {fv[e1.src], fv[e1.tgt]} = {e2.src, e2.tgt}

\* match_g_Orig returns True exactly when the graphs are isomorphic, of every
\* call that returns a result
OrigIsIsomorphism ==
    (Done(2) /\ inv[2].res \in {"True", "False"}) =>
        (inv[2].res = "True" <=> Isomorphic(g1, g2))

\* C8, of the graphs with an edge, where the search decides: match_g_Orig returns
\* True exactly when the graphs are isomorphic
OrigIsIsomorphismWithEdges ==
    (Done(2) /\ Len(g1.ekeys) > 0 /\ Len(g2.ekeys) > 0) =>
        (inv[2].res = "True" <=> Isomorphic(g1, g2))

\* C10: in a match_g call the count of mapping extensions is never above E^2
AttemptBound ==
    \A p \in Procs :
        (inv[p].fn = "match_g" /\ inv[p].st # "idle") =>
            inv[p].n_mappings <= Budget(G(inv[p].a))

\* C5: run together, each of two match_g calls returns what it returns alone
NonInterference ==
    /\ Done(3) => inv[3].res = inv[1].res
    /\ Done(4) => inv[4].res = inv[2].res

====
